---- MODULE Spec2Model ----
(***************************************************************************)
(* A model of src/base_model.py: the weighted multi-head graph attention   *)
(* layer (WeightedMultiHeadGAT), its stack (StackedGAT), the end-to-end    *)
(* model (FullModel) and the single-image wrapper (ImageGraphPipeline).    *)
(*                                                                         *)
(* Tensors are finite functions over 1..n.  Real numbers are carried on    *)
(* integer grids (fixed point, quotients floored); the two IEEE values the *)
(* code can produce besides finite numbers, -inf and NaN, are kept apart   *)
(* from the finite ones by a tag.  exp is the power of two on the grid.    *)
(***************************************************************************)
EXTENDS Integers, Sequences, FiniteSets, TLC

\* ------------------------------------------------------------------ bounds
MaxNodes == 2
MaxWidth == 4
MaxHeads == 2
MaxIn    == 2
MaxLayers == 2
ExpBits  == 6
MaxClasses == 2
MaxImage == 4
\* hidden_dims=[256] of the classifier, scaled down.
GcnHidden == 2
MaxCalls == 2
MaxEpochs == 1
MaxStages == 2
MaxBatches == 2
MaxRuns == 2
MaxTime == 2

\* ------------------------------------------------------------ grid values
Fin(n) == [k |-> "fin", v |-> n]
NaN    == [k |-> "nan", v |-> 0]
NegInf == [k |-> "ninf", v |-> 0]
IsNaN(a) == a.k = "nan"
IsFin(a) == a.k = "fin"

\* IEEE addition on {finite, -inf, NaN} (+inf never arises in this code).
VAdd(a, b) ==
  IF IsNaN(a) \/ IsNaN(b) THEN NaN
  ELSE IF a.k = "ninf" \/ b.k = "ninf" THEN NegInf
  ELSE Fin(a.v + b.v)

\* IEEE multiplication of a value by a finite integer weight.
VScale(w, a) ==
  IF IsNaN(a) THEN NaN
  ELSE IF a.k = "ninf" THEN (IF w > 0 THEN NegInf ELSE NaN)
  ELSE Fin(w * a.v)

\* A tensor computed once: comparing a function with itself makes TLC tabulate
\* it, so later reads do not recompute its entries.
Eval(f) == IF f = f THEN f ELSE f

RECURSIVE VSum(_, _)
VSum(f, n) == IF n = 0 THEN Fin(0) ELSE VAdd(f[n], VSum(f, n - 1))

RECURSIVE ISum(_, _)
ISum(f, n) == IF n = 0 THEN 0 ELSE f[n] + ISum(f, n - 1)

RECURSIVE Pow2(_)
Pow2(n) == IF n <= 0 THEN 1 ELSE 2 * Pow2(n - 1)

\* --------------------------------------------------- program constants
\* alpha = 0.2 (the leaky slope) and dropout = 0.3, as exact ratios.
AlphaNum == 1
AlphaDen == 5
DropNum  == 3
DropDen  == 10
\* The adjacency grid: a weight w is carried as the integer w * AdjOne, the
\* common denominator of the weights (sim + 1) / 2 the model produces.
FeatOne == 5
SimOne == FeatOne * FeatOne
AdjOne == 2 * SimOne

Seeds == {0, 1}

\* ------------------------------------------- WeightedMultiHeadGAT.__init__
\* The attributes __init__ has assigned when it returns.
GatAttrs(residual, use_edge_weights) ==
  {"heads", "alpha", "dropout", "residual", "use_edge_weights",
   "out_features_per_head", "W", "head_fusion", "attn_src", "attn_dst"}
    \cup (IF use_edge_weights THEN {"edge_encoder"} ELSE {})
    \cup (IF residual THEN {"res_fc"} ELSE {})

\* The dimension check of line 108.
DivisibleBad(out_features, heads) == TRUE
Divisible(out_features, heads) == out_features % heads = 0

\* The object a call WeightedMultiHeadGAT(...) yields, or the error it raises.
\* seed stands for the draws of the random initialisers.
NewGAT(in_features, out_features, heads, residual, use_edge_weights, seed) ==
  IF ~Divisible(out_features, heads)
  THEN [status |-> "error", err |-> "AssertionError"]
  ELSE [status |-> "ok",
        in_features |-> in_features,
        out_features |-> out_features,
        heads |-> heads,
        out_features_per_head |-> out_features \div heads,
        residual |-> residual,
        use_edge_weights |-> use_edge_weights,
        attrs |-> GatAttrs(residual, use_edge_weights),
        training |-> TRUE,
        seed |-> seed]

\* Learned parameters, as the initialisers leave them (one of two draws).
ParamW(L, o, i) == IF (o + i + L.seed) % 2 = 0 THEN 1 ELSE -1
ParamAttnSrc(L, h, d) == IF d = 1 THEN (IF L.seed = 0 THEN 1 ELSE -1) ELSE 0
ParamAttnDst(L, h, d) == IF d = L.out_features_per_head THEN 1 ELSE 0
ParamEdgeW(L, h) == IF (h + L.seed) % 2 = 0 THEN 1 ELSE -1
ParamEdgeB(L, h) == 0
ParamResW(L, o, i) == IF o = i THEN 1 ELSE 0
ParamFuseW(L, o, c) == IF o = c THEN 1 ELSE 0

\* -------------------------------------------- WeightedMultiHeadGAT.forward
\* One Bernoulli draw per element; a draw pattern names which elements are kept.
DropPatterns == {"all", "none", "alt"}
Keep(pat, a, b) ==
  CASE pat = "all" -> TRUE
    [] pat = "none" -> FALSE
    [] OTHER -> (a + b) % 2 = 0

\* An attention weight: the ratio n / d, or NaN.
WFin(n, d) == [k |-> "fin", n |-> n, d |-> d]
WNaN == [k |-> "nan", n |-> 0, d |-> 1]

\* self.W(x).view(N, heads, out_features_per_head): entry (i, hd, d).
GatProject(L, x) ==
  [i \in 1..Len(x) |->
    [hd \in 1..L.heads |->
      [d \in 1..L.out_features_per_head |->
        LET o == (hd - 1) * L.out_features_per_head + d
        IN VSum([c \in 1..L.in_features |-> VScale(ParamW(L, o, c), x[i][c])],
                L.in_features)]]]

\* torch.sum(h * self.attn_src, dim=-1) and the same with attn_dst.
GatAttnSrc(L, h) ==
  [i \in 1..Len(h) |->
    [hd \in 1..L.heads |->
      VSum([d \in 1..L.out_features_per_head |->
              VScale(ParamAttnSrc(L, hd, d), h[i][hd][d])],
           L.out_features_per_head)]]
GatAttnDst(L, h) ==
  [i \in 1..Len(h) |->
    [hd \in 1..L.heads |->
      VSum([d \in 1..L.out_features_per_head |->
              VScale(ParamAttnDst(L, hd, d), h[i][hd][d])],
           L.out_features_per_head)]]

\* self.edge_encoder(adj_matrix.unsqueeze(-1)): a weight on the adjacency grid
\* times a parameter, brought back to the score grid.
GatEdgeWeights(L, adj, i, j, hd) ==
  Fin(((ParamEdgeW(L, hd) * adj[i][j]) \div AdjOne) + ParamEdgeB(L, hd))

\* Lines 148-153: the raw score of the ordered pair (i, j) in head hd.
GatRawScores(L, h, adj) ==
  LET src == Eval(GatAttnSrc(L, h))
      dst == Eval(GatAttnDst(L, h))
  IN [i \in 1..Len(h) |-> [j \in 1..Len(h) |-> [hd \in 1..L.heads |->
        LET s == VAdd(src[i][hd], dst[j][hd])
        IN IF L.use_edge_weights
           THEN VAdd(s, GatEdgeWeights(L, adj, i, j, hd))
           ELSE s]]]

\* Lines 156-157: mask = adj_matrix > 0; attn.masked_fill(~mask, -inf).
GatMaskBad(w) == w >= 0
GatMaskHalf(w) == w > SimOne
GatMask(w) == w > 0
GatMasked(L, scores, adj) ==
  [i \in 1..Len(adj) |-> [j \in 1..Len(adj) |-> [hd \in 1..L.heads |->
     IF GatMask(adj[i][j]) THEN scores[i][j][hd] ELSE NegInf]]]

\* F.leaky_relu(attn, alpha): x if x > 0 else x * alpha.
LeakyRelu(a) ==
  IF IsFin(a)
  THEN (IF a.v > 0 THEN a ELSE Fin((AlphaNum * a.v) \div AlphaDen))
  ELSE VScale(AlphaNum, a)

\* The greatest finite value of a row of scores (used only when one exists).
RowMax(row, n) ==
  LET fin == {row[j].v : j \in {c \in 1..n : IsFin(row[c])}}
  IN CHOOSE m \in fin : \A o \in fin : m >= o

\* exp(s - max) on the grid, for a finite s <= max: a power of two with ExpBits
\* fractional bits, which underflows to 0 below them (as exp does in floats).
ExpBelow(gap) == IF gap <= ExpBits THEN Pow2(ExpBits - gap) ELSE 0

\* F.softmax(attn, dim=1): for each i and head, over j: exp(s - max) over its
\* sum.  exp(-inf) = 0; a row holding a NaN, or no finite score at all (-inf
\* minus -inf), is NaN throughout.
GatSoftmax(L, a) ==
  [i \in 1..Len(a) |->
    LET n == Len(a)
        stat == Eval([hd \in 1..L.heads |->
                  LET row  == Eval([j \in 1..n |-> a[i][j][hd]])
                      bad  == (\E j \in 1..n : IsNaN(row[j]))
                                \/ (\A j \in 1..n : ~IsFin(row[j]))
                      mx   == IF bad THEN 0 ELSE RowMax(row, n)
                      nums == Eval([j \in 1..n |->
                                IF ~bad /\ IsFin(row[j])
                                THEN ExpBelow(mx - row[j].v) ELSE 0])
                  IN [bad |-> bad, nums |-> nums, den |-> ISum(nums, n)]])
    IN [j \in 1..n |-> [hd \in 1..L.heads |->
         IF stat[hd].bad THEN WNaN
         ELSE WFin(stat[hd].nums[j], stat[hd].den)]]]

\* F.dropout(attn, p, training): input * mask / (1 - p) when training.
AttnDropped(L, attn, pat) ==
  [i \in 1..Len(attn) |-> [j \in 1..Len(attn) |-> [hd \in 1..L.heads |->
     LET w == attn[i][j][hd]
     IN IF w.k = "nan" THEN w
        ELSE IF Keep(pat, i + j, hd)
             THEN WFin(w.n * DropDen, w.d * (DropDen - DropNum))
             ELSE WFin(0, w.d * (DropDen - DropNum))]]]
GatAttnDropoutAlways(L, attn, pat) == AttnDropped(L, attn, pat)
GatAttnDropout(L, attn, pat) ==
  IF L.training THEN AttnDropped(L, attn, pat) ELSE attn

\* torch.einsum('ijh,jhd->ihd', attn, h), flattened to [N, heads * D_h]: entry
\* (i, o).  A NaN weight or a NaN feature anywhere in the sum makes it NaN.
GatAggregate(L, attn, h) ==
  [i \in 1..Len(h) |->
    [o \in 1..(L.heads * L.out_features_per_head) |->
      LET n  == Len(h)
          hd == ((o - 1) \div L.out_features_per_head) + 1
          d  == ((o - 1) % L.out_features_per_head) + 1
      IN IF \E j \in 1..n : attn[i][j][hd].k = "nan" \/ IsNaN(h[j][hd][d])
         THEN NaN
         ELSE Fin(ISum([j \in 1..n |-> attn[i][j][hd].n * h[j][hd][d].v], n)
                    \div attn[i][1][hd].d)]]

\* self.res_fc(x): Linear(in_features, heads * out_features_per_head).
GatResFc(L, x) ==
  [i \in 1..Len(x) |->
    [o \in 1..(L.heads * L.out_features_per_head) |->
      VSum([c \in 1..L.in_features |-> VScale(ParamResW(L, o, c), x[i][c])],
           L.in_features)]]

\* GELU on the grid: x * Phi(x) rounded to the nearest grid point.
Gelu(a) == IF IsFin(a) THEN (IF a.v > 0 THEN a ELSE Fin(0)) ELSE a

\* nn.Dropout(p) / F.dropout on one element: input * mask / (1 - p) when active.
DropElem(a, active, keep) ==
  IF ~active THEN a
  ELSE IF IsNaN(a) THEN NaN
  ELSE IF keep THEN Fin((a.v * DropDen) \div (DropDen - DropNum))
  ELSE Fin(0)

\* self.head_fusion: Linear(heads * D_h, out_features), GELU, Dropout.
GatHeadFusion(L, hout, pat) ==
  [i \in 1..Len(hout) |->
    [o \in 1..L.out_features |->
      LET width == L.heads * L.out_features_per_head
          lin == VSum([c \in 1..width |-> VScale(ParamFuseW(L, o, c), hout[i][c])],
                      width)
      IN DropElem(Gelu(lin), L.training, Keep(pat, i, o))]]

\* Reading self.res_fc: the attribute exists only if __init__ assigned it
\* (nn.Module.__getattr__ raises AttributeError otherwise).
GatHasResFc(L) == "res_fc" \in L.attrs

\* forward(x, adj_matrix) as a whole: the tensor returned or the error raised,
\* with the attention weights the aggregation used.  patA and patF are the
\* dropout draws on the attention weights and in head_fusion.
GatForward(L, x, adj, patA, patF) ==
  IF \E i \in 1..Len(x) : Len(x[i]) # L.in_features
  THEN [status |-> "error", err |-> "RuntimeError", attn |-> <<>>, out |-> <<>>]
  ELSE
    LET h      == Eval(GatProject(L, x))
        raw    == Eval(GatRawScores(L, h, adj))
        masked == GatMasked(L, raw, adj)
        act    == Eval([i \in 1..Len(x) |-> [j \in 1..Len(x) |-> [hd \in 1..L.heads |->
                     LeakyRelu(masked[i][j][hd])]]])
        attn   == Eval(GatAttnDropout(L, GatSoftmax(L, act), patA))
        agg    == Eval(GatAggregate(L, attn, h))
    IN IF ~GatHasResFc(L)
       THEN [status |-> "error", err |-> "AttributeError", attn |-> attn, out |-> <<>>]
       ELSE
         LET res  == Eval(GatResFc(L, x))
             hout == Eval([i \in 1..Len(x) |->
                       [o \in 1..(L.heads * L.out_features_per_head) |->
                          VAdd(agg[i][o], res[i][o])]])
         IN [status |-> "ok", err |-> "", attn |-> attn,
             out |-> Eval(GatHeadFusion(L, hout, patF))]

\* ------------------------------------------------------- StackedGAT.__init__
\* The check loop of lines 194-195: every hidden width is divisible by heads.
StackCheckSkipped(hidden_dims, heads) == TRUE
StackCheck(hidden_dims, heads) ==
  \A i \in 1..Len(hidden_dims) : hidden_dims[i] % heads = 0

\* The build loop of lines 198-208 over zip(dims[:-1], dims[1:]), from pair k
\* on: the layers appended, and the error of the first constructor that raises.
RECURSIVE StackBuild(_, _, _, _, _, _)
StackBuild(dims, heads, residual, seed, k, built) ==
  IF k > Len(dims) - 1 THEN [layers |-> built, err |-> ""]
  ELSE LET L == NewGAT(dims[k], dims[k + 1], heads, residual, TRUE, seed)
       IN IF L.status = "ok"
          THEN StackBuild(dims, heads, residual, seed, k + 1, Append(built, L))
          ELSE [layers |-> built, err |-> L.err]

\* The object a call StackedGAT(in_features, hidden_dims, heads, ..) yields, or
\* the error it raises; layers are the layer objects constructed by then.
NewStack(in_features, hidden_dims, heads, residual, seed) ==
  IF ~StackCheck(hidden_dims, heads)
  THEN [status |-> "error", err |-> "AssertionError", layers |-> <<>>]
  ELSE LET b == StackBuild(<<in_features>> \o hidden_dims, heads, residual,
                           seed, 1, <<>>)
       IN [status |-> IF b.err = "" THEN "ok" ELSE "error",
           err |-> b.err, layers |-> b.layers]

\* ---------------------------------------------------------- StackedGAT.forward
\* for layer in self.layers: x = layer(x, adj_matrix), from layer k on.  calls
\* records what each layer was handed.
RECURSIVE StackRun(_, _, _, _, _, _)
StackRunBinarised(layers, x, adj, pat, k, calls) ==
  IF k > Len(layers) THEN [status |-> "ok", err |-> "", out |-> x, calls |-> calls]
  ELSE LET r == GatForward(layers[k], x, adj, pat, pat)
           c == Append(calls, [x |-> x, adj |-> adj])
           a == [i \in 1..Len(adj) |-> [j \in 1..Len(adj) |->
                   IF adj[i][j] > 0 THEN AdjOne ELSE 0]]
       IN IF r.status = "ok"
          THEN StackRun(layers, r.out, a, pat, k + 1, c)
          ELSE [status |-> "error", err |-> r.err, out |-> <<>>, calls |-> c]
StackRun(layers, x, adj, pat, k, calls) ==
  IF k > Len(layers) THEN [status |-> "ok", err |-> "", out |-> x, calls |-> calls]
  ELSE LET r == GatForward(layers[k], x, adj, pat, pat)
           c == Append(calls, [x |-> x, adj |-> adj])
       IN IF r.status = "ok"
          THEN StackRun(layers, r.out, adj, pat, k + 1, c)
          ELSE [status |-> "error", err |-> r.err, out |-> <<>>, calls |-> c]

StackForward(S, x, adj, pat) == StackRun(S.layers, x, adj, pat, 1, <<>>)

\* Module.train(mode) on the stack: every layer's flag follows.
StackSetTraining(S, mode) ==
  [S EXCEPT !.layers = [k \in 1..Len(S.layers) |->
                          [S.layers[k] EXCEPT !.training = mode]]]

\* ------------------------------------------------ MultiScaleFeatureExtractor
\* The floor of the square root, by bisection.
RECURSIVE ISqrtIn(_, _, _)
ISqrtIn(n, lo, hi) ==
  IF lo >= hi THEN lo
  ELSE LET mid == (lo + hi + 1) \div 2
       IN IF mid * mid <= n THEN ISqrtIn(n, mid, hi) ELSE ISqrtIn(n, lo, mid - 1)
ISqrt(n) == ISqrtIn(n, 0, IF n < 4096 THEN 64 ELSE 4096)

Dot(a, b) == ISum([c \in 1..Len(a) |-> a[c] * b[c]], Len(a))
Norm(a) == ISqrt(Dot(a, a))

\* What self.fuse (pool, Linear, BatchNorm1d, ReLU) can yield for one image:
\* non-negative activations, possibly all zero.  The backbone is not modelled;
\* its activations are a fixed table, read at a place that the image and the
\* normalisation statistics decide.
FuseTable == << <<3, 4>>, <<0, 0>>, <<1, 0>>, <<4, 3>>, <<0, 2>> >>
FuseOut(code, width) ==
  [c \in 1..width |-> IF c <= 2 THEN FuseTable[code][c] ELSE 0]

\* BatchNorm1d: in training mode the statistics are those of the batch, in
\* evaluation mode the running ones (summarised by the batches tracked).
FuseCode(img, batch, training, tracked) ==
  IF training
  THEN ((img + ISum(batch, Len(batch))) % Len(FuseTable)) + 1
  ELSE ((img + tracked) % Len(FuseTable)) + 1

\* F.normalize(v, p=2, dim=1): v / max(||v||, eps), on the grid of unit
\* 1 / FeatOne; a zero vector stays zero.
Normalize(v) ==
  LET nrm == Norm(v)
  IN [c \in 1..Len(v) |-> IF nrm = 0 THEN 0 ELSE (FeatOne * v[c]) \div nrm]

\* MultiScaleFeatureExtractor.forward on a batch: unit-length embeddings of
\* width output_dims, or the error BatchNorm1d raises in training mode on a
\* batch of one ("Expected more than 1 value per channel when training").
CnnForward(output_dims, batch, training, tracked) ==
  IF training /\ Len(batch) = 1
  THEN [status |-> "error", err |-> "ValueError", out |-> <<>>]
  ELSE [status |-> "ok", err |-> "",
        out |-> [i \in 1..Len(batch) |->
                   Normalize(FuseOut(FuseCode(batch[i], batch, training, tracked),
                                     output_dims))]]

\* ----------------------------------- MultiScaleFeatureExtractor, the stages
\* self.feature_layers, in the order of the ModuleDict.
StageOrder == <<"layer1", "layer2", "layer3", "layer4">>
KnownStages == {StageOrder[k] : k \in 1..Len(StageOrder)}

\* channel_map of _get_total_channels (lines 54-57), the same for both types.
CnnTypes == {"resnet50", "resnet101"}
ChannelMap == [layer1 |-> 256, layer2 |-> 512, layer3 |-> 1024, layer4 |-> 2048]

\* The factor by which the initial layers and the stages down to this one
\* shrink the image (comments of lines 31-40).
StageStride == [layer1 |-> 4, layer2 |-> 8, layer3 |-> 16, layer4 |-> 32]

\* sum([channel_map[cnn_type][layer] for layer in layers]), names known.
TotalChannels(layers) == ISum([k \in 1..Len(layers) |-> ChannelMap[layers[k]]], Len(layers))

\* MultiScaleFeatureExtractor(cnn_type, output_dims, layers_to_extract): the
\* object, or the KeyError of the channel_map lookup on an unknown stage name,
\* raised while the arguments of nn.Linear are evaluated.
NewExtractorUnchecked(cnn_type, output_dims, layers_to_extract) ==
  [status |-> "ok", cnn_type |-> cnn_type, output_dims |-> output_dims,
   layers_to_extract |-> layers_to_extract,
   in_channels |-> ISum([k \in 1..Len(layers_to_extract) |->
                          IF layers_to_extract[k] \in KnownStages
                          THEN ChannelMap[layers_to_extract[k]] ELSE 0],
                        Len(layers_to_extract)),
   training |-> TRUE, tracked |-> 0]
NewExtractor(cnn_type, output_dims, layers_to_extract) ==
  IF \E k \in 1..Len(layers_to_extract) : layers_to_extract[k] \notin KnownStages
  THEN [status |-> "error", err |-> "KeyError"]
  ELSE [status |-> "ok", cnn_type |-> cnn_type, output_dims |-> output_dims,
        layers_to_extract |-> layers_to_extract,
        in_channels |-> TotalChannels(layers_to_extract),
        training |-> TRUE, tracked |-> 0]

\* The loop of lines 66-70: every stage is evaluated, in the order of the
\* ModuleDict, on the map the previous one produced.
StageInput(k) == IF k = 1 THEN "initial_layers" ELSE StageOrder[k - 1]
StageMaps(size) ==
  [k \in 1..Len(StageOrder) |->
     [stage |-> StageOrder[k], input |-> StageInput(k),
      channels |-> ChannelMap[StageOrder[k]],
      size |-> size \div StageStride[StageOrder[k]], resized |-> FALSE]]

\* features: the maps of the stages named in layers_to_extract, in the order
\* in which the stages ran.
Named(layers, name) == \E k \in 1..Len(layers) : layers[k] = name
Recorded(layers, maps) ==
  SelectSeq(maps, LAMBDA m : Named(layers, m.stage))

\* Lines 73-81: with more than one map, all but the last are interpolated to
\* the size of the last and the maps are concatenated on dim 1; a single map
\* is taken as it is; with none, features[0] raises IndexError.
ResizeTargetFirst(features) == features[1].size
ResizeTarget(features) == features[Len(features)].size
Fused(features) ==
  IF Len(features) > 1
  THEN LET resized == [k \in 1..Len(features) |->
                         IF k < Len(features)
                         THEN [features[k] EXCEPT !.size = ResizeTarget(features),
                                                  !.resized = TRUE]
                         ELSE features[k]]
       IN [status |-> "ok", err |-> "", parts |-> resized,
           channels |-> ISum([k \in 1..Len(resized) |-> resized[k].channels], Len(resized)),
           sizes |-> {resized[k].size : k \in 1..Len(resized)}]
  ELSE IF Len(features) = 1
  THEN [status |-> "ok", err |-> "", parts |-> features,
        channels |-> features[1].channels, sizes |-> {features[1].size}]
  ELSE [status |-> "error", err |-> "IndexError", parts |-> <<>>,
        channels |-> 0, sizes |-> {}]

\* forward(x) on a batch of images of one size: the stages run, the fusion,
\* and the embeddings self.fuse and F.normalize make of it.  torch.cat refuses
\* maps of different sizes, nn.Linear an input of another width than it was
\* built with.
ExtForward(E, batch, size) ==
  LET maps == StageMaps(size)
      features == Recorded(E.layers_to_extract, maps)
      fused == Fused(features)
      none == [maps |-> maps, features |-> features, fused |-> fused, out |-> <<>>]
  IN IF fused.status # "ok" THEN [status |-> "error", err |-> fused.err] @@ none
     ELSE IF Cardinality(fused.sizes) # 1 \/ fused.channels # E.in_channels
     THEN [status |-> "error", err |-> "RuntimeError"] @@ none
     ELSE LET r == CnnForward(E.output_dims, batch, E.training, E.tracked)
          IN [status |-> r.status, err |-> r.err, maps |-> maps,
              features |-> features, fused |-> fused, out |-> r.out]

\* ------------------------------------------------------------ GCNClassifier
ParamGcnW(o, c) == IF (o + c) % 2 = 0 THEN 1 ELSE -1

\* GCNConv(in, out)(x, edge_index): self-loops added where missing, then
\* sum over the edges j -> i of (x[j] W) / sqrt(deg(j) deg(i)).
GcnConv(x, edges, in_dim, out_dim) ==
  IF \E i \in 1..Len(x) : Len(x[i]) # in_dim
  THEN [status |-> "error", err |-> "RuntimeError", out |-> <<>>]
  ELSE
    LET n == Len(x)
        E == edges \cup {<<i, i>> : i \in 1..n}
        deg == [i \in 1..n |-> Cardinality({j \in 1..n : <<j, i>> \in E})]
        xw == Eval([j \in 1..n |-> [o \in 1..out_dim |->
                VSum([c \in 1..in_dim |-> VScale(ParamGcnW(o, c), x[j][c])],
                     in_dim)]])
    IN [status |-> "ok", err |-> "",
        out |-> [i \in 1..n |-> [o \in 1..out_dim |->
                  IF \E j \in 1..n : <<j, i>> \in E /\ IsNaN(xw[j][o]) THEN NaN
                  ELSE Fin(ISum([j \in 1..n |->
                              IF <<j, i>> \in E
                              THEN xw[j][o].v \div ISqrt(deg[i] * deg[j])
                              ELSE 0], n))]]]

Relu(a) == IF IsFin(a) THEN (IF a.v > 0 THEN a ELSE Fin(0)) ELSE a

\* BatchNorm1d on node features: centred on the batch mean in training mode (a
\* batch of one raises), on the running mean in evaluation mode.
BatchNorm(x, training, tracked) ==
  IF training /\ Len(x) = 1
  THEN [status |-> "error", err |-> "ValueError", out |-> <<>>]
  ELSE
    LET n == Len(x)
        bad(c) == \E i \in 1..n : IsNaN(x[i][c])
        mean(c) == IF training
                   THEN ISum([i \in 1..n |-> x[i][c].v], n) \div n
                   ELSE tracked
    IN [status |-> "ok", err |-> "",
        out |-> [i \in 1..n |-> [c \in 1..Len(x[i]) |->
                  IF IsNaN(x[i][c]) \/ (training /\ bad(c)) THEN NaN
                  ELSE Fin(x[i][c].v - mean(c))]]]

\* torch.sigmoid on the grid of unit 1 / SigOne; it saturates at 0 and 1.
SigOne == 4
Sigmoid(a) ==
  IF ~IsFin(a) THEN a
  ELSE Fin(CASE a.v < -2 -> 0
             [] a.v \in {-2, -1} -> 1
             [] a.v = 0 -> 2
             [] a.v \in {1, 2} -> 3
             [] OTHER -> SigOne)

\* GCNClassifier(in_features, num_classes, hidden_dims=[GcnHidden]).forward:
\* GCNConv, ReLU, BatchNorm1d, GCNConv, then the sigmoid.
GcnForward(G, x, edges) ==
  LET c1 == GcnConv(x, edges, G.in_features, G.hidden)
  IN IF c1.status # "ok" THEN c1
     ELSE
       LET act == Eval([i \in 1..Len(x) |-> [c \in 1..G.hidden |-> Relu(c1.out[i][c])]])
           bn == BatchNorm(act, G.training, G.tracked)
       IN IF bn.status # "ok" THEN bn
          ELSE
            LET c2 == GcnConv(bn.out, edges, G.hidden, G.num_classes)
            IN IF c2.status # "ok" THEN c2
               ELSE [status |-> "ok", err |-> "",
                     out |-> [i \in 1..Len(x) |-> [o \in 1..G.num_classes |->
                               Sigmoid(c2.out[i][o])]]]

\* --------------------------------------------------------- FullModel.__init__
\* The input width of the classifier: gat_dims[-1] (line 278).
GcnInWidthFirst(gat_dims) == gat_dims[1]
GcnInWidth(gat_dims) == gat_dims[Len(gat_dims)]

\* The object a call FullModel(cnn_feat_dim, gat_dims, num_classes, gat_heads)
\* yields, or the error it raises: the stack's assertion, or the IndexError of
\* gat_dims[-1] on an empty list.  tracked counts the batches the
\* normalisation layers have seen in training mode.
NewFullModelAnyDims(cnn_feat_dim, gat_dims, num_classes, gat_heads) ==
  LET S == NewStack(cnn_feat_dim, gat_dims, gat_heads, TRUE, 0)
      last == IF gat_dims = <<>> THEN cnn_feat_dim ELSE gat_dims[Len(gat_dims)]
  IN IF S.status # "ok" THEN [status |-> "error", err |-> S.err]
     ELSE [status |-> "ok", cnn_feat_dim |-> cnn_feat_dim, gat |-> S,
           gcn_in |-> last, norm_width |-> last, num_classes |-> num_classes,
           training |-> TRUE, tracked |-> 0]
NewFullModel(cnn_feat_dim, gat_dims, num_classes, gat_heads) ==
  LET S == NewStack(cnn_feat_dim, gat_dims, gat_heads, TRUE, 0)
  IN IF S.status # "ok" THEN [status |-> "error", err |-> S.err]
     ELSE IF gat_dims = <<>> THEN [status |-> "error", err |-> "IndexError"]
     ELSE [status |-> "ok",
           cnn_feat_dim |-> cnn_feat_dim,
           gat |-> S,
           gcn_in |-> GcnInWidth(gat_dims),
           norm_width |-> gat_dims[Len(gat_dims)],
           num_classes |-> num_classes,
           training |-> TRUE,
           tracked |-> 0]

\* Module.train(mode) on the whole model: every submodule's flag follows.
FullSetTraining(M, mode) ==
  [M EXCEPT !.training = mode, !.gat = StackSetTraining(M.gat, mode)]

\* ----------------------------------------------------------- FullModel.forward
\* self.dropout(features), p = 0.3.  The result is carried in units of
\* 1 / (FeatOne * (DropDen - DropNum)), on which the rescaling by 1 / (1 - p)
\* is exact: a kept element is multiplied by DropDen, one passed through
\* unchanged (evaluation mode) by DropDen - DropNum.
FeatDropout(f, training, pat) ==
  [i \in 1..Len(f) |-> [c \in 1..Len(f[i]) |->
     IF ~training THEN f[i][c] * (DropDen - DropNum)
     ELSE IF Keep(pat, i, c) THEN f[i][c] * DropDen ELSE 0]]

\* F.cosine_similarity(features.unsqueeze(1), features.unsqueeze(0), dim=2),
\* entry (i, j), in units of 1 / SimOne: x.y / (max(|x|, eps) max(|y|, eps)),
\* which is 0 when either vector is zero.
CosSim(f, i, j) ==
  IF Norm(f[i]) = 0 \/ Norm(f[j]) = 0 THEN 0
  ELSE (SimOne * Dot(f[i], f[j])) \div (Norm(f[i]) * Norm(f[j]))

\* adj_matrix = (sim_matrix + 1) / 2, in units of 1 / AdjOne.
RescaleNone(sim) == 2 * sim
Rescale(sim) == sim + SimOne

BuildAdj(f) == [i \in 1..Len(f) |-> [j \in 1..Len(f) |-> Rescale(CosSim(f, i, j))]]

\* edge_index = adj_matrix.nonzero().t(): the ordered pairs with a nonzero entry.
NonZeroUpper(adj) ==
  {<<i, j>> \in (1..Len(adj)) \X (1..Len(adj)) : i <= j /\ adj[i][j] # 0}
NonZero(adj) ==
  {<<i, j>> \in (1..Len(adj)) \X (1..Len(adj)) : adj[i][j] # 0}

\* The features as the attention stack reads them: rounded to its grid.
ToGrid(f) ==
  LET u == FeatOne * (DropDen - DropNum)
  IN [i \in 1..Len(f) |-> [c \in 1..Len(f[i]) |-> Fin((2 * f[i][c] + u) \div (2 * u))]]

\* self.gat_norm = nn.LayerNorm(gat_dims[-1]) on one node's features.
LayerNormRow(row) ==
  LET w == Len(row)
  IN IF \E c \in 1..w : IsNaN(row[c]) THEN [c \in 1..w |-> NaN]
     ELSE LET mean == ISum([c \in 1..w |-> row[c].v], w) \div w
              var == ISum([c \in 1..w |-> (row[c].v - mean) * (row[c].v - mean)], w) \div w
              std == IF ISqrt(var) = 0 THEN 1 ELSE ISqrt(var)
          IN [c \in 1..w |-> Fin((row[c].v - mean) \div std)]

\* Lines 304-306: layer normalisation, leaky_relu(0.2), dropout.
PostGat(M, x, pat) ==
  IF \E i \in 1..Len(x) : Len(x[i]) # M.norm_width
  THEN [status |-> "error", err |-> "RuntimeError", out |-> <<>>]
  ELSE [status |-> "ok", err |-> "",
        out |-> [i \in 1..Len(x) |->
                  LET ln == Eval(LayerNormRow(x[i]))
                  IN [c \in 1..Len(x[i]) |->
                       DropElem(LeakyRelu(ln[c]), M.training, Keep(pat, i, c))]]]

\* What a forward pass leaves behind in the model: in training mode the
\* normalisation layers fold the batch into their running statistics, in
\* evaluation mode nothing changes.
FullAfterForward(M) ==
  IF M.training THEN [M EXCEPT !.tracked = @ + 1] ELSE M

\* forward(x_img) as a whole, on a batch of images: the scores returned or the
\* error raised, with the embeddings, the adjacency, the stack's pass and the
\* edge list built on the way.
FullForward(M, batch, pat) ==
  LET cnn == CnnForward(M.cnn_feat_dim, batch, M.training, M.tracked)
      none == [features |-> <<>>, adj |-> <<>>, gat_out |-> <<>>, edges |-> {},
               out |-> <<>>]
  IN IF cnn.status # "ok"
     THEN [status |-> "error", err |-> cnn.err] @@ none
     ELSE
       LET feats == Eval(FeatDropout(cnn.out, M.training, pat))
           adj == Eval(BuildAdj(feats))
           g == StackForward(M.gat, ToGrid(feats), adj, pat)
           built == [features |-> feats, adj |-> adj, gat_out |-> <<>>, edges |-> {},
                     out |-> <<>>]
       IN IF g.status # "ok" THEN [status |-> "error", err |-> g.err] @@ built
          ELSE
            LET post == PostGat(M, g.out, pat)
            IN IF post.status # "ok" THEN [status |-> "error", err |-> post.err] @@ built
               ELSE
                 LET edges == NonZero(adj)
                     cls == GcnForward([in_features |-> M.gcn_in, hidden |-> GcnHidden,
                                        num_classes |-> M.num_classes,
                                        training |-> M.training, tracked |-> M.tracked],
                                       post.out, edges)
                 IN [status |-> cls.status, err |-> cls.err, features |-> feats,
                     adj |-> adj, gat_out |-> g.out, edges |-> edges, out |-> cls.out]

\* ------------------------------------------------------------------ state
VARIABLES
  gat,      \* what the last call WeightedMultiHeadGAT(...) yielded
  gatArgs,  \* the arguments of that call
  gatRun,   \* the last call of the layer's forward: inputs and result
  gatRead,  \* what the last read of layer.res_fc yielded ("" before any)
  stack,    \* what the last call StackedGAT(...) yielded
  stackArgs,\* the arguments of that call
  stackRun, \* the last call of the stack's forward: inputs and result
  fm,       \* what the last call FullModel(...) yielded
  fmArgs,   \* the arguments of that call
  fmRun,    \* the last call of the model's forward: batch and result
  graphIn,  \* node features handed to the graph construction
  graphOut, \* the similarity, adjacency, mask and edge list built from them
  pipe,     \* the ImageGraphPipeline object and the position of its forward
  pipeLog,  \* the calls of the pipeline's forward that have ended, in order
  ext,      \* what the last call MultiScaleFeatureExtractor(...) yielded
  extArgs,  \* the arguments of that call
  extRun,   \* the last call of the extractor's forward: batch and result
  timer,    \* measure_inference_time: its arguments, position and locals
  clock     \* forward passes run under the measurement, in order

gatVars == <<gat, gatArgs, gatRun, gatRead>>
stackVars == <<stack, stackArgs, stackRun>>
fmVars == <<fm, fmArgs, fmRun>>
graphVars == <<graphIn, graphOut>>
pipeVars == <<pipe, pipeLog>>
extVars == <<ext, extArgs, extRun>>
timeVars == <<timer, clock>>

NoArgs == [in_features |-> 0, out_features |-> 0, heads |-> 0, residual |-> FALSE]
NoRun  == [done |-> FALSE]

\* ------------------------------------------------------- inputs (layer spec)
\* Node features: N rows of the given width, values 0, 1, .. on the grid.
XPatterns == {"idx", "alt"}
XInput(pat, n, width) ==
  [i \in 1..n |-> [c \in 1..width |->
     Fin(IF pat = "idx" THEN i - 1 ELSE (i + c) % 2)]]

\* Adjacency: each row is fully connected, a self-loop only, or without any
\* positive entry (zero on the diagonal, negative elsewhere).
RowPatterns == {"full", "self", "none"}
AdjEntry(pat, i, j) ==
  CASE pat = "full" -> IF i = j THEN AdjOne ELSE SimOne
    [] pat = "self" -> IF i = j THEN AdjOne ELSE 0
    [] OTHER -> IF i = j THEN 0 ELSE -SimOne
AdjInput(rp, n) == [i \in 1..n |-> [j \in 1..n |-> AdjEntry(rp[i], i, j)]]

\* ------------------------------------------------------ actions (layer spec)
\* A run is the life of one layer object: the constructor is called, the
\* layer's mode may be switched, and it is then read and called once; forward
\* changes nothing of the layer, so further calls would only repeat these.
GatIdle ==
  /\ gat = [status |-> "none"]
  /\ gatArgs = NoArgs
  /\ gatRun = NoRun
  /\ gatRead = ""

StackIdle ==
  /\ stack = [status |-> "none"]
  /\ stackArgs = [in_features |-> 0, hidden_dims |-> <<>>, heads |-> 0]
  /\ stackRun = NoRun

FullIdle ==
  /\ fm = [status |-> "none"]
  /\ fmArgs = [cnn_feat_dim |-> 0, gat_dims |-> <<>>, num_classes |-> 0, gat_heads |-> 0]
  /\ fmRun = NoRun

GraphIdle ==
  /\ graphIn = <<>>
  /\ graphOut = NoRun

PipeIdle ==
  /\ pipe = [status |-> "none"]
  /\ pipeLog = <<>>

ExtIdle ==
  /\ ext = [status |-> "none"]
  /\ extArgs = [cnn_type |-> "", output_dims |-> 0, layers_to_extract |-> <<>>]
  /\ extRun = NoRun

TimeIdle ==
  /\ timer = [pc |-> "none"]
  /\ clock = <<>>

GatInit == GatIdle /\ StackIdle /\ FullIdle /\ GraphIdle /\ PipeIdle /\ ExtIdle /\ TimeIdle

\* layer = WeightedMultiHeadGAT(in_features, out_features, heads, residual=..)
GatConstruct ==
  /\ gat.status = "none"
  /\ \E inf \in 1..MaxIn, outf \in 1..MaxWidth, heads \in 1..MaxHeads,
        residual \in BOOLEAN, uew \in BOOLEAN, seed \in Seeds :
       /\ gat' = NewGAT(inf, outf, heads, residual, uew, seed)
       /\ gatArgs' = [in_features |-> inf, out_features |-> outf, heads |-> heads,
                      residual |-> residual]
  /\ UNCHANGED <<gatRun, gatRead, stackVars, fmVars, graphVars, pipeVars, extVars, timeVars>>

\* layer.train() / layer.eval()
GatSetMode ==
  /\ gat.status = "ok"
  /\ ~gatRun.done
  /\ gatRead = ""
  /\ \E mode \in BOOLEAN : gat' = [gat EXCEPT !.training = mode]
  /\ UNCHANGED <<gatArgs, gatRun, gatRead, stackVars, fmVars, graphVars, pipeVars, extVars, timeVars>>

\* The read of layer.res_fc in hasattr(layer.res_fc, 'weight') and in
\* layer.res_fc is None.
GatReadResFc ==
  /\ gat.status = "ok"
  /\ ~gatRun.done
  /\ gatRead = ""
  /\ gatRead' = IF GatHasResFc(gat) THEN "Linear" ELSE "AttributeError"
  /\ UNCHANGED <<gat, gatArgs, gatRun, stackVars, fmVars, graphVars, pipeVars, extVars, timeVars>>

\* layer(x, adj_matrix)
GatCallForward ==
  /\ gat.status = "ok"
  /\ ~gatRun.done
  /\ \E n \in 1..MaxNodes, width \in 1..MaxIn, xp \in XPatterns,
        pat \in (IF gat.training THEN DropPatterns ELSE {"all"}) :
       \E rp \in [1..n -> RowPatterns] :
         LET x == XInput(xp, n, width)
             adj == AdjInput(rp, n)
         IN gatRun' = [done |-> TRUE, x |-> x, adj |-> adj,
                       res |-> GatForward(gat, x, adj, pat, pat)]
  /\ UNCHANGED <<gat, gatArgs, gatRead, stackVars, fmVars, graphVars, pipeVars, extVars, timeVars>>

GatNext == GatConstruct \/ GatSetMode \/ GatReadResFc \/ GatCallForward

vars == <<gatVars, stackVars, fmVars, graphVars, pipeVars, extVars, timeVars>>

SpecGAT == GatInit /\ [][GatNext]_vars

\* ------------------------------------------------------ actions (stack spec)
\* A run is the life of one stack object, as for the layer.
RECURSIVE SeqsUpTo(_, _)
SeqsUpTo(S, n) ==
  IF n = 0 THEN {<<>>}
  ELSE SeqsUpTo(S, n - 1) \cup [1..n -> S]

StackInit == GatIdle /\ StackIdle /\ FullIdle /\ GraphIdle /\ PipeIdle /\ ExtIdle /\ TimeIdle

\* gat = StackedGAT(in_features, hidden_dims, heads, residual=..)
StackConstruct ==
  /\ stack.status = "none"
  /\ \E inf \in 1..MaxIn, heads \in 1..MaxHeads, residual \in BOOLEAN,
        hidden \in SeqsUpTo(1..MaxWidth, MaxLayers) :
       /\ stack' = NewStack(inf, hidden, heads, residual, 0)
       /\ stackArgs' = [in_features |-> inf, hidden_dims |-> hidden,
                        heads |-> heads]
  /\ UNCHANGED <<stackRun, gatVars, fmVars, graphVars, pipeVars, extVars, timeVars>>

\* gat.train() / gat.eval()
StackSetMode ==
  /\ stack.status = "ok"
  /\ ~stackRun.done
  /\ \E mode \in BOOLEAN : stack' = StackSetTraining(stack, mode)
  /\ UNCHANGED <<stackArgs, stackRun, gatVars, fmVars, graphVars, pipeVars, extVars, timeVars>>

\* gat(x, adj_matrix)
StackCallForward ==
  /\ stack.status = "ok"
  /\ ~stackRun.done
  /\ \E n \in 1..MaxNodes, rowpat \in RowPatterns, xp \in XPatterns,
        pat \in DropPatterns :
       LET x == XInput(xp, n, stackArgs.in_features)
           adj == AdjInput([i \in 1..n |-> IF i = 1 THEN rowpat ELSE "full"], n)
       IN stackRun' = [done |-> TRUE, x |-> x, adj |-> adj,
                       res |-> StackForward(stack, x, adj, pat)]
  /\ UNCHANGED <<stack, stackArgs, gatVars, fmVars, graphVars, pipeVars, extVars, timeVars>>

StackNext == StackConstruct \/ StackSetMode \/ StackCallForward

SpecStack == StackInit /\ [][StackNext]_vars

\* ------------------------------------------------------ actions (model spec)
\* A run is the life of one FullModel object, as for the layer.
\* Batches of n images: consecutive images from any first one.
Batches(n) == {[i \in 1..n |-> (a + i - 1) % (MaxImage + 1)] : a \in 0..MaxImage}

FullInit == GatIdle /\ StackIdle /\ FullIdle /\ GraphIdle /\ PipeIdle /\ ExtIdle /\ TimeIdle

\* model = FullModel(cnn_feat_dim, gat_dims, num_classes, gat_heads), the
\* embedding width held at MaxIn.
FullConstruct ==
  /\ fm.status = "none"
  /\ \E heads \in 1..MaxHeads, classes \in 1..MaxClasses,
        dims \in SeqsUpTo(1..MaxWidth, MaxLayers) :
       /\ fm' = NewFullModel(MaxIn, dims, classes, heads)
       /\ fmArgs' = [cnn_feat_dim |-> MaxIn, gat_dims |-> dims,
                     num_classes |-> classes, gat_heads |-> heads]
  /\ UNCHANGED <<fmRun, gatVars, stackVars, graphVars, pipeVars, extVars, timeVars>>

\* model.train() / model.eval()
FullSetMode ==
  /\ fm.status = "ok"
  /\ ~fmRun.done
  /\ \E mode \in BOOLEAN : fm' = FullSetTraining(fm, mode)
  /\ UNCHANGED <<fmArgs, fmRun, gatVars, stackVars, graphVars, pipeVars, extVars, timeVars>>

\* model(batch_tensor): in training mode the normalisation layers also record
\* the batch in their running statistics.
FullCallForward ==
  /\ fm.status = "ok"
  /\ ~fmRun.done
  /\ \E n \in 1..MaxNodes :
       \E batch \in Batches(n),
          pat \in (IF fm.training THEN DropPatterns ELSE {"all"}) :
         fmRun' = [done |-> TRUE, batch |-> batch, training |-> fm.training,
                   res |-> FullForward(fm, batch, pat)]
  /\ fm' = FullAfterForward(fm)
  /\ UNCHANGED <<fmArgs, gatVars, stackVars, graphVars, pipeVars, extVars, timeVars>>

FullNext == FullConstruct \/ FullSetMode \/ FullCallForward

SpecFull == FullInit /\ [][FullNext]_vars

\* ------------------------------------------------------ actions (graph spec)
\* The graph construction of FullModel.forward (cosine similarity, rescaling)
\* and the two edge tests, as a function of arbitrary node features.
GraphVectors ==
  {<<5, 0>>, <<0, 5>>, <<3, 4>>, <<4, 3>>, <<0, 0>>,
   <<-5, 0>>, <<0, -5>>, <<-3, 4>>, <<-3, -4>>}

GraphInit ==
  /\ GatIdle /\ StackIdle /\ FullIdle /\ PipeIdle /\ ExtIdle /\ TimeIdle
  /\ \E n \in 1..MaxNodes : graphIn \in [1..n -> GraphVectors]
  /\ graphOut = NoRun

GraphBuild ==
  /\ ~graphOut.done
  /\ LET adj == BuildAdj(graphIn)
     IN graphOut' =
          [done |-> TRUE,
           sim |-> [i \in 1..Len(graphIn) |-> [j \in 1..Len(graphIn) |->
                      CosSim(graphIn, i, j)]],
           adj |-> adj,
           mask |-> [i \in 1..Len(adj) |-> [j \in 1..Len(adj) |-> GatMask(adj[i][j])]],
           edges |-> NonZero(adj)]
  /\ UNCHANGED <<graphIn, gatVars, stackVars, fmVars, pipeVars, extVars, timeVars>>

GraphNext == GraphBuild

SpecGraph == GraphInit /\ [][GraphNext]_vars

\* ------------------------------------------------ actions (configuration spec)
\* A run constructs the attention stack on its own and then the full model
\* with the same widths and head count.
ConfigInit == GatIdle /\ StackIdle /\ FullIdle /\ GraphIdle /\ PipeIdle /\ ExtIdle /\ TimeIdle

\* model = FullModel(in_features, hidden_dims, num_classes, heads)
ConfigFull ==
  /\ stack.status # "none"
  /\ fm.status = "none"
  /\ \E classes \in 1..MaxClasses :
       /\ fm' = NewFullModel(stackArgs.in_features, stackArgs.hidden_dims,
                             classes, stackArgs.heads)
       /\ fmArgs' = [cnn_feat_dim |-> stackArgs.in_features,
                     gat_dims |-> stackArgs.hidden_dims,
                     num_classes |-> classes, gat_heads |-> stackArgs.heads]
  /\ UNCHANGED <<fmRun, gatVars, stackVars, graphVars, pipeVars, extVars, timeVars>>

ConfigNext == StackConstruct \/ ConfigFull

SpecConfig == ConfigInit /\ [][ConfigNext]_vars

\* -------------------------------------------------- actions (extractor spec)
\* A run is the life of one MultiScaleFeatureExtractor object.
ExtInit == GatIdle /\ StackIdle /\ FullIdle /\ GraphIdle /\ PipeIdle /\ ExtIdle /\ TimeIdle

\* Stage names a caller may write: the four of the backbone, and one that is
\* not a stage.
StageNames == KnownStages \cup {"layer5"}
ImageSizes == {64, 224}

\* cnn = MultiScaleFeatureExtractor(cnn_type, True, output_dims, layers_to_extract)
ExtConstruct ==
  /\ ext.status = "none"
  /\ \E type \in CnnTypes, dims \in 1..MaxIn,
        layers \in SeqsUpTo(StageNames, MaxStages) :
       /\ ext' = NewExtractor(type, dims, layers)
       /\ extArgs' = [cnn_type |-> type, output_dims |-> dims,
                      layers_to_extract |-> layers]
  /\ UNCHANGED <<extRun, gatVars, stackVars, fmVars, graphVars, pipeVars, timeVars>>

\* cnn.train() / cnn.eval()
ExtSetMode ==
  /\ ext.status = "ok"
  /\ ~extRun.done
  /\ \E mode \in BOOLEAN : ext' = [ext EXCEPT !.training = mode]
  /\ UNCHANGED <<extArgs, extRun, gatVars, stackVars, fmVars, graphVars, pipeVars, timeVars>>

\* cnn(x)
ExtCallForward ==
  /\ ext.status = "ok"
  /\ ~extRun.done
  /\ \E n \in 1..MaxNodes, size \in ImageSizes :
       \E batch \in Batches(n) :
         extRun' = [done |-> TRUE, batch |-> batch, size |-> size,
                    training |-> ext.training,
                    res |-> ExtForward(ext, batch, size)]
  /\ ext' = FullAfterForward(ext)
  /\ UNCHANGED <<extArgs, gatVars, stackVars, fmVars, graphVars, pipeVars, timeVars>>

ExtNext == ExtConstruct \/ ExtSetMode \/ ExtCallForward

SpecExt == ExtInit /\ [][ExtNext]_vars

\* ------------------------------------------------------ actions (timing spec)
\* A run is one call of measure_inference_time.  The data loader is the
\* sequence of its batch sizes; a forward pass takes a whole number of
\* milliseconds read off the wall clock.
TimeInit == GatIdle /\ StackIdle /\ FullIdle /\ GraphIdle /\ PipeIdle /\ ExtIdle /\ TimeIdle

Elapsed == 0..MaxTime

\* measure_inference_time(model, data_loader, device, num_runs): model.eval()
\* and the two accumulators.
TimeCall ==
  /\ timer.pc = "none"
  /\ \E loader \in SeqsUpTo(1..MaxNodes, MaxBatches), runs \in 1..MaxRuns :
       timer' = [pc |-> "warmup", data_loader |-> loader, num_runs |-> runs,
                 training |-> FALSE, i |-> 0, total_time |-> 0,
                 num_samples |-> 0]
  /\ clock' = <<>>
  /\ UNCHANGED <<gatVars, stackVars, fmVars, graphVars, pipeVars, extVars>>

\* The warm-up loop: one forward pass of the first batch, then break; nothing
\* when the loader is empty.
TimeWarmUp ==
  /\ timer.pc = "warmup"
  /\ timer' = [timer EXCEPT !.pc = "measure"]
  /\ IF Len(timer.data_loader) = 0 THEN clock' = clock
     ELSE \E d \in Elapsed :
            clock' = Append(clock, [batch |-> 1, timed |-> FALSE, ms |-> d])
  /\ UNCHANGED <<gatVars, stackVars, fmVars, graphVars, pipeVars, extVars>>

\* One round of the measurement loop: a timed forward pass of batch i.
TimeMeasure ==
  /\ timer.pc = "measure"
  /\ timer.i < Len(timer.data_loader)
  /\ timer.i < timer.num_runs
  /\ \E d \in Elapsed :
       /\ clock' = Append(clock, [batch |-> timer.i + 1, timed |-> TRUE, ms |-> d])
       /\ timer' = [timer EXCEPT
            !.i = @ + 1,
            !.total_time = @ + d,
            !.num_samples = @ + timer.data_loader[timer.i + 1]]
  /\ UNCHANGED <<gatVars, stackVars, fmVars, graphVars, pipeVars, extVars>>

\* avg_time = total_time / num_runs, kept as the fraction num / den.
AvgTime(total_time, num_runs) == [num |-> total_time, den |-> num_runs]

\* The loop ends (loader exhausted or i >= num_runs) and the function returns.
TimeReturn ==
  /\ timer.pc = "measure"
  /\ timer.i >= Len(timer.data_loader) \/ timer.i >= timer.num_runs
  /\ timer' = [pc |-> "done", data_loader |-> timer.data_loader,
               num_runs |-> timer.num_runs, training |-> timer.training,
               i |-> timer.i, total_time |-> timer.total_time,
               num_samples |-> timer.num_samples,
               avg_time |-> AvgTime(timer.total_time, timer.num_runs)]
  /\ UNCHANGED <<clock, gatVars, stackVars, fmVars, graphVars, pipeVars, extVars>>

TimeNext == TimeCall \/ TimeWarmUp \/ TimeMeasure \/ TimeReturn

SpecTime == TimeInit /\ [][TimeNext]_vars

\* --------------------------------------------------- actions (pipeline spec)
\* A run is the life of one ImageGraphPipeline object around one model, with
\* the experiment harness training and validating the model between calls.
PipeInit == GatIdle /\ StackIdle /\ FullIdle /\ GraphIdle /\ PipeIdle /\ ExtIdle /\ TimeIdle

NoOutput == [status |-> "none", err |-> "", out |-> <<>>]

\* self.model.eval() (line 334).
PipeModelEvalSkipped(M) == M
PipeModelEval(M) == FullSetTraining(M, FALSE)

\* pipeline = ImageGraphPipeline(model) around a model that was constructed:
\* attention layers of one width.  Gradient tracking is on, as by default.
PipeConstruct ==
  /\ pipe.status = "none"
  /\ \E heads \in 1..MaxHeads, width \in 1..MaxWidth, depth \in 1..MaxLayers :
       LET M == NewFullModel(MaxIn, [k \in 1..depth |-> width], MaxClasses, heads)
       IN /\ M.status = "ok"
          /\ pipe' = [status |-> "ok", model |-> M, pc |-> "idle", grad |-> TRUE,
                      saved |-> <<>>, image |-> 0, tensor |-> <<>>,
                      output |-> NoOutput, params |-> 0, wasTraining |-> FALSE]
  /\ UNCHANGED <<pipeLog, gatVars, stackVars, fmVars, graphVars, extVars, timeVars>>

\* ExperimentRunner.train_epoch: model.train(), then forward passes and
\* optimizer steps, which change the parameters and the running statistics.
HarnessTrainEpoch ==
  /\ pipe.status = "ok" /\ pipe.pc = "idle"
  /\ pipe.model.tracked < MaxEpochs
  /\ pipe' = [pipe EXCEPT !.model = FullAfterForward(FullSetTraining(@, TRUE))]
  /\ UNCHANGED <<pipeLog, gatVars, stackVars, fmVars, graphVars, extVars, timeVars>>

\* ExperimentRunner.validate: model.eval().
HarnessValidate ==
  /\ pipe.status = "ok" /\ pipe.pc = "idle"
  /\ pipe.model.training
  /\ pipe' = [pipe EXCEPT !.model = FullSetTraining(@, FALSE)]
  /\ UNCHANGED <<pipeLog, gatVars, stackVars, fmVars, graphVars, extVars, timeVars>>

\* The paths a call is made with: -1 names no readable image.  After a call,
\* the next one repeats its path, takes the next image, or an unreadable path.
Paths(log) ==
  IF log = <<>> THEN -1..MaxImage
  ELSE LET last == log[Len(log)].image
       IN {last, (last + 1) % (MaxImage + 1), -1}

\* forward(image_path) is entered: self.model.eval().
PipeEnter ==
  /\ pipe.status = "ok" /\ pipe.pc = "idle"
  /\ Len(pipeLog) < MaxCalls
  /\ \E path \in Paths(pipeLog) :
       pipe' = [pipe EXCEPT !.model = PipeModelEval(@), !.pc = "nograd",
                            !.image = path, !.tensor = <<>>, !.output = NoOutput,
                            !.params = pipe.model.tracked,
                            !.wasTraining = pipe.model.training]
  /\ UNCHANGED <<pipeLog, gatVars, stackVars, fmVars, graphVars, extVars, timeVars>>

\* with torch.no_grad(): (line 336)
PipeNoGrad ==
  /\ pipe.status = "ok" /\ pipe.pc = "nograd"
  /\ pipe' = [pipe EXCEPT !.saved = <<pipe.grad>> \o @, !.grad = FALSE, !.pc = "load"]
  /\ UNCHANGED <<pipeLog, gatVars, stackVars, fmVars, graphVars, extVars, timeVars>>

\* Image.open(...).convert('RGB'), self.preprocess(img).unsqueeze(0): a batch
\* of one image, or the error of the open, which leaves the with block.
PipeLoad ==
  /\ pipe.status = "ok" /\ pipe.pc = "load"
  /\ IF pipe.image < 0
     THEN /\ pipe' = [pipe EXCEPT !.grad = Head(pipe.saved), !.saved = Tail(@),
                                  !.pc = "idle"]
          /\ pipeLog' = Append(pipeLog,
               [image |-> pipe.image, params |-> pipe.params,
                wasTraining |-> pipe.wasTraining,
                result |-> [status |-> "error", err |-> "FileNotFoundError", out |-> <<>>]])
     ELSE /\ pipe' = [pipe EXCEPT !.tensor = <<pipe.image>>, !.pc = "inner"]
          /\ UNCHANGED pipeLog
  /\ UNCHANGED <<gatVars, stackVars, fmVars, graphVars, extVars, timeVars>>

\* the nested with torch.no_grad(): (line 341)
PipeInnerNoGrad ==
  /\ pipe.status = "ok" /\ pipe.pc = "inner"
  /\ pipe' = [pipe EXCEPT !.saved = <<pipe.grad>> \o @, !.grad = FALSE, !.pc = "forward"]
  /\ UNCHANGED <<pipeLog, gatVars, stackVars, fmVars, graphVars, extVars, timeVars>>

\* output = self.model(img_tensor), whatever the random generator would draw.
PipeModelForward ==
  /\ pipe.status = "ok" /\ pipe.pc = "forward"
  /\ \E pat \in DropPatterns :
       pipe' = [pipe EXCEPT !.output = FullForward(pipe.model, pipe.tensor, pat),
                            !.model = FullAfterForward(@),
                            !.pc = "leave"]
  /\ UNCHANGED <<pipeLog, gatVars, stackVars, fmVars, graphVars, extVars, timeVars>>

\* Both with blocks are left, by the end of the body or by an error of the
\* forward pass, which ends the call.
PipeLeave ==
  /\ pipe.status = "ok" /\ pipe.pc = "leave"
  /\ IF pipe.output.status = "ok"
     THEN /\ pipe' = [pipe EXCEPT !.grad = pipe.saved[2], !.saved = Tail(Tail(@)),
                                  !.pc = "return"]
          /\ UNCHANGED pipeLog
     ELSE /\ pipe' = [pipe EXCEPT !.grad = pipe.saved[2], !.saved = Tail(Tail(@)),
                                  !.pc = "idle"]
          /\ pipeLog' = Append(pipeLog,
               [image |-> pipe.image, params |-> pipe.params,
                wasTraining |-> pipe.wasTraining,
                result |-> [status |-> "error", err |-> pipe.output.err, out |-> <<>>]])
  /\ UNCHANGED <<gatVars, stackVars, fmVars, graphVars, extVars, timeVars>>

\* return output[0] (line 344)
PipeReturn ==
  /\ pipe.status = "ok" /\ pipe.pc = "return"
  /\ pipe' = [pipe EXCEPT !.pc = "idle"]
  /\ pipeLog' = Append(pipeLog,
       [image |-> pipe.image, params |-> pipe.params,
        wasTraining |-> pipe.wasTraining,
        result |-> [status |-> "ok", err |-> "", out |-> pipe.output.out[1]]])
  /\ UNCHANGED <<gatVars, stackVars, fmVars, graphVars, extVars, timeVars>>

PipeNext ==
  \/ PipeConstruct \/ HarnessTrainEpoch \/ HarnessValidate
  \/ PipeEnter \/ PipeNoGrad \/ PipeLoad \/ PipeInnerNoGrad
  \/ PipeModelForward \/ PipeLeave \/ PipeReturn

SpecPipe == PipeInit /\ [][PipeNext]_vars

\* ------------------------------------------------------------ layer claims
\* Row i of the adjacency has no positive entry.
RowMasked(adj, i) == \A j \in 1..Len(adj) : adj[i][j] <= 0

\* The weights of row i, head hd, are all numbers and sum to v.
AttnSumIs(attn, i, hd, v) ==
  /\ \A j \in 1..Len(attn) : attn[i][j][hd].k = "fin"
  /\ ISum([j \in 1..Len(attn) |-> attn[i][j][hd].n], Len(attn))
       = v * attn[i][1][hd].d

\* C1: constructing a layer succeeds exactly when out_features is divisible by
\* heads; a failure is the assertion error of the dimension check, and a layer
\* that is built has per-head width out_features / heads.
C1_ConstructIffDivisible ==
  gat.status # "none" =>
    /\ (gat.status = "ok") <=> (gatArgs.out_features % gatArgs.heads = 0)
    /\ gat.status = "error" => gat.err = "AssertionError"
    /\ gat.status = "ok" =>
         gat.out_features_per_head * gatArgs.heads = gatArgs.out_features

\* C1 witness: a construction that failed on a width not divisible by heads.
C1_Witness ==
  /\ gat.status = "error"
  /\ gatArgs.out_features % gatArgs.heads # 0

\* C2: a layer built with residual enabled exposes res_fc and forward adds it;
\* a layer built with residual disabled yields None when res_fc is read and
\* its forward completes.
C2_ResidualConfig ==
  /\ gatRead # "" =>
       gatRead = (IF gatArgs.residual THEN "Linear" ELSE "None")
  /\ (gatRun.done /\ Len(gatRun.x[1]) = gat.in_features) =>
       gatRun.res.status = "ok"

\* C3: when some row of the adjacency has no positive entry, the output of
\* forward holds only numbers, never NaN.
C3_MaskedRowNumeric ==
  (/\ gatRun.done
   /\ gatRun.res.status = "ok"
   /\ \E i \in 1..Len(gatRun.adj) : RowMasked(gatRun.adj, i)) =>
    \A i \in 1..Len(gatRun.x) : \A o \in 1..gat.out_features :
      ~IsNaN(gatRun.res.out[i][o])

\* C4: for every node i and head, the attention weights used in the
\* aggregation sum to 1 over j, or to 0 if row i is fully masked.
C4_AttentionSums ==
  (gatRun.done /\ gatRun.res.status = "ok") =>
    \A i \in 1..Len(gatRun.x) : \A hd \in 1..gat.heads :
      AttnSumIs(gatRun.res.attn, i, hd,
                IF RowMasked(gatRun.adj, i) THEN 0 ELSE 1)

\* ------------------------------------------------------------ stack claims
\* C10: StackedGAT fails, with no layer built, if any hidden width is not
\* divisible by heads; otherwise it builds one layer per entry, layer k taking
\* the previous width (in_features first) as input and hidden_dims[k] as
\* output width.
C10_StackConstruct ==
  stack.status # "none" =>
    LET hd == stackArgs.hidden_dims
        dims == <<stackArgs.in_features>> \o hd
    IN IF \E i \in 1..Len(hd) : hd[i] % stackArgs.heads # 0
       THEN stack.status = "error" /\ stack.layers = <<>>
       ELSE /\ stack.status = "ok"
            /\ Len(stack.layers) = Len(hd)
            /\ \A k \in 1..Len(hd) :
                 /\ stack.layers[k].in_features = dims[k]
                 /\ stack.layers[k].out_features = hd[k]
                 /\ stack.layers[k].heads = stackArgs.heads

\* C10 witness: a construction that failed on its second width, the first
\* being divisible.
C10_Witness ==
  /\ stack.status = "error"
  /\ Len(stackArgs.hidden_dims) = 2
  /\ stackArgs.hidden_dims[1] % stackArgs.heads = 0
  /\ stackArgs.hidden_dims[2] % stackArgs.heads # 0

\* ------------------------------------------------------------ model claims
FullBuilt == fmRun.done /\ fmRun.res.adj # <<>>

\* C5: for every batch passed to FullModel.forward the adjacency matrix is
\* symmetric and every diagonal entry equals 1.
C5_AdjSymmetricUnitDiagonal ==
  FullBuilt =>
    LET adj == fmRun.res.adj
    IN /\ \A i, j \in 1..Len(adj) : adj[i][j] = adj[j][i]
       /\ \A i \in 1..Len(adj) : adj[i][i] = AdjOne

ScoresOk ==
  LET out == fmRun.res.out
  IN /\ fmRun.res.status = "ok"
     /\ Len(out) = Len(fmRun.batch)
     /\ \A i \in 1..Len(out) :
          /\ Len(out[i]) = fmArgs.num_classes
          /\ \A c \in 1..Len(out[i]) :
               IsFin(out[i][c]) /\ out[i][c].v >= 0 /\ out[i][c].v <= SigOne

\* C7 as stated: a forward pass of a model with valid widths on a batch of B
\* images returns B rows of C scores, each in [0, 1].
C7_ScoresAnyBatch == fmRun.done => ScoresOk

\* C7 as amended: the forward pass returns B rows of C scores, each in [0, 1],
\* for a batch of two or more images, and for a single image in evaluation
\* mode; a single image in training mode raises ValueError.
C7_ScoresShapeRange ==
  fmRun.done =>
    IF fmRun.training /\ Len(fmRun.batch) = 1
    THEN fmRun.res.status = "error" /\ fmRun.res.err = "ValueError"
    ELSE ScoresOk

C7_Witness ==
  /\ fmRun.done /\ fmRun.training /\ Len(fmRun.batch) = 2
  /\ Len(fmArgs.gat_dims) = 2 /\ fmArgs.gat_dims[1] # fmArgs.gat_dims[2]
  /\ fmArgs.num_classes = 2
  /\ ScoresOk

\* --------------------------------------------------------- pipeline claims
\* C8: whatever mode the model was in at the call, the model's forward pass
\* runs in evaluation mode on a batch of one image, gradient tracking is off
\* from before the image is loaded until after the forward pass, and what is
\* returned is the one row of the output, without the batch dimension.
C8_PipelineInference ==
  pipe.status = "ok" =>
    /\ pipe.pc \in {"load", "inner", "forward", "leave"} => ~pipe.grad
    /\ pipe.pc = "forward" => ~pipe.model.training /\ Len(pipe.tensor) = 1
    /\ \A k \in 1..Len(pipeLog) :
         pipeLog[k].result.status = "ok" =>
           /\ Len(pipeLog[k].result.out) = pipe.model.num_classes
           /\ \A c \in 1..pipe.model.num_classes : IsFin(pipeLog[k].result.out[c])
    /\ (pipe.pc = "idle" /\ pipe.output.status = "ok") =>
          pipeLog[Len(pipeLog)].result.out = pipe.output.out[1]

C8_Witness ==
  /\ pipe.status = "ok" /\ pipe.pc = "idle" /\ pipe.grad
  /\ \E k \in 1..Len(pipeLog) :
       pipeLog[k].wasTraining /\ pipeLog[k].result.status = "ok"

\* C9: two consecutive calls of the pipeline's forward on the same image, with
\* no training between them, return the same output.
C9_ConsecutiveCallsAgree ==
  \A k \in 1..(Len(pipeLog) - 1) :
    (pipeLog[k].image = pipeLog[k + 1].image /\ pipeLog[k].params = pipeLog[k + 1].params)
      => pipeLog[k].result = pipeLog[k + 1].result

C9_Witness ==
  /\ Len(pipeLog) >= 2
  /\ pipeLog[1].image = pipeLog[2].image /\ pipeLog[1].params = pipeLog[2].params
  /\ pipeLog[1].wasTraining
  /\ pipeLog[2].result.status = "ok"

\* --------------------------------------------------------- extractor claims
UnknownStage(layers) == \E k \in 1..Len(layers) : layers[k] \notin KnownStages
Distinct(layers) == \A j, k \in 1..Len(layers) : layers[j] = layers[k] => j = k

\* C11: constructing an extractor whose layers_to_extract holds a name that is
\* not a stage of the backbone raises during construction, so no forward pass
\* ever runs on such an object.
C11_UnknownStageAtConstruction ==
  (ext.status # "none" /\ UnknownStage(extArgs.layers_to_extract)) =>
     /\ ext.status = "error" /\ ext.err = "KeyError"
     /\ ~extRun.done

\* C11 witness: a failed construction whose list names a stage and a
\* non-stage.
C11_Witness ==
  /\ ext.status = "error"
  /\ Len(extArgs.layers_to_extract) = 2
  /\ extArgs.layers_to_extract[1] \in KnownStages
  /\ extArgs.layers_to_extract[2] \notin KnownStages

\* C13: every row of the extractor's output has L2 norm 1, rows whose
\* activations are all zero after the ReLU included.
C13_UnitNormRows ==
  (extRun.done /\ extRun.res.status = "ok") =>
     \A i \in 1..Len(extRun.res.out) : Norm(extRun.res.out[i]) = FeatOne

\* C16: the four stages run in the order layer1..layer4, each on the previous
\* one's output; the maps recorded are those of the named stages; for any
\* order of distinct names, several recorded maps all get the size of the
\* deepest recorded stage and their channels add up to the width the
\* projection was built with, and a single recorded map is used as it is.
C16_StagesAndFusion ==
  (extRun.done /\ Distinct(extArgs.layers_to_extract)) =>
    LET res == extRun.res
        layers == extArgs.layers_to_extract
        deepest == CHOOSE k \in 1..Len(StageOrder) :
                     /\ Named(layers, StageOrder[k])
                     /\ \A j \in (k + 1)..Len(StageOrder) : ~Named(layers, StageOrder[j])
    IN /\ Len(res.maps) = Len(StageOrder)
       /\ \A k \in 1..Len(StageOrder) :
            /\ res.maps[k].stage = StageOrder[k]
            /\ res.maps[k].input = IF k = 1 THEN "initial_layers" ELSE res.maps[k - 1].stage
       /\ {res.features[k].stage : k \in 1..Len(res.features)}
            = {layers[k] : k \in 1..Len(layers)}
       /\ Len(res.features) = Len(layers)
       /\ Len(layers) > 1 =>
            /\ res.status = "ok" \/ res.err = "ValueError"
            /\ Len(res.fused.parts) = Len(layers)
            /\ \A k \in 1..Len(res.fused.parts) :
                 res.fused.parts[k].size = extRun.size \div StageStride[StageOrder[deepest]]
            /\ res.fused.channels = ext.in_channels
       /\ Len(layers) = 1 =>
            /\ res.status = "ok" \/ res.err = "ValueError"
            /\ res.fused.parts = <<res.maps[deepest]>>
            /\ ~res.fused.parts[1].resized

\* C16 witness: two stages named deepest first, and a forward pass that
\* returned.
C16_Witness ==
  /\ extRun.done /\ extRun.res.status = "ok"
  /\ extArgs.layers_to_extract = <<"layer4", "layer2">>

\* ----------------------------------------------------- configuration claims
\* C12 as stated: an empty list of attention widths makes the construction
\* fail, of the full model and of the attention stack alike.
C12_EmptyWidthsFail ==
  /\ (fm.status # "none" /\ fmArgs.gat_dims = <<>>) => fm.status = "error"
  /\ (stack.status # "none" /\ stackArgs.hidden_dims = <<>>) => stack.status = "error"

\* C12 as amended: with an empty list of attention widths the construction of
\* the full model fails (IndexError), while the attention stack on its own is
\* constructed, with no layer.
C12_EmptyWidths ==
  /\ (fm.status # "none" /\ fmArgs.gat_dims = <<>>) =>
        fm.status = "error" /\ fm.err = "IndexError"
  /\ (stack.status # "none" /\ stackArgs.hidden_dims = <<>>) =>
        stack.status = "ok" /\ stack.layers = <<>>

C12_Witness ==
  /\ stackArgs.hidden_dims = <<>> /\ stack.status = "ok"
  /\ fmArgs.gat_dims = <<>> /\ fm.status = "error"

\* ----------------------------------------------------- single-image claims
SingleImage == fmRun.done /\ Len(fmRun.batch) = 1

\* The single node attends to itself with weight 1 in every layer and head,
\* and the stack's output for it holds numbers only.
SelfAttention ==
  LET res == fmRun.res
      run == StackForward(fm.gat, ToGrid(res.features), res.adj, "all")
  IN /\ Len(res.adj) = 1 /\ Len(res.adj[1]) = 1
     /\ Len(res.gat_out) = 1
     /\ \A c \in 1..Len(res.gat_out[1]) : IsFin(res.gat_out[1][c])
     /\ \A k \in 1..Len(fm.gat.layers) :
          LET attn == GatForward(fm.gat.layers[k], run.calls[k].x, run.calls[k].adj,
                                 "all", "all").attn
          IN \A hd \in 1..fm.gat.layers[k].heads :
               /\ attn[1][1][hd].k = "fin"
               /\ attn[1][1][hd].n = attn[1][1][hd].d

\* C14 as stated: for a batch of one image the forward pass builds a 1 x 1
\* adjacency, the node attends only to itself with weight 1 and the stack's
\* output holds no non-numeric value.
C14_SingleNodeAnyMode == SingleImage => SelfAttention

\* C14 as amended: the same, for a model in evaluation mode; in training mode
\* the forward pass of one image raises ValueError before the adjacency is
\* built.
C14_SingleNode ==
  SingleImage =>
    IF fmRun.training
    THEN /\ fmRun.res.status = "error" /\ fmRun.res.err = "ValueError"
         /\ fmRun.res.adj = <<>>
    ELSE fmRun.res.status = "ok" /\ SelfAttention

C14_Witness ==
  /\ SingleImage /\ ~fmRun.training /\ fmRun.res.status = "ok"
  /\ Len(fmArgs.gat_dims) = 2 /\ fmArgs.gat_heads = 2
  /\ \A c \in 1..Len(fmRun.res.features[1]) : fmRun.res.features[1][c] = 0

\* C19: in FullModel.forward the embeddings are non-negative, so every
\* similarity is at least 0 and every adjacency entry at least 0.5, in both
\* modes; no pair is masked in the attention layers, the stack's output holds
\* numbers only, and the classifier's edge list holds all N * N ordered pairs,
\* the pairs the attention mask admits.
C19_DenseGraph ==
  FullBuilt =>
    LET res == fmRun.res
        n == Len(fmRun.batch)
    IN /\ \A i \in 1..n : \A c \in 1..Len(res.features[i]) : res.features[i][c] >= 0
       /\ Len(res.adj) = n
       /\ \A i, j \in 1..n : res.adj[i][j] >= SimOne /\ GatMask(res.adj[i][j])
       /\ res.status = "ok"
       /\ \A i \in 1..n : \A c \in 1..Len(res.gat_out[i]) : IsFin(res.gat_out[i][c])
       /\ res.edges = (1..n) \X (1..n)
       /\ res.edges = {<<i, j>> \in (1..n) \X (1..n) : GatMask(res.adj[i][j])}

\* C19 witness: a training-mode pass on two images whose embeddings have
\* similarity zero.
C19_Witness ==
  /\ FullBuilt /\ fmRun.training /\ Len(fmRun.batch) = 2
  /\ fmRun.res.adj[1][2] = SimOne
  /\ fmRun.res.status = "ok"

\* ------------------------------------------------------------ mask claims
\* The aggregated features of node i do not depend on the projected features
\* of node j.
NoContribution(L, attn, h, i, j) ==
  LET other == [h EXCEPT ![j] = [hd \in DOMAIN h[j] |-> [d \in DOMAIN h[j][hd] |->
                                   Fin(h[j][hd][d].v + 1)]]]
  IN GatAggregate(L, attn, h)[i] = GatAggregate(L, attn, other)[i]

\* C17: a pair (i, j) with adj[i][j] <= 0 in a row i that has a positive entry
\* gets attention weight exactly 0 in every head, and the features of node j
\* do not enter the aggregated output of node i.
C17_MaskedPairsGetNothing ==
  (gatRun.done /\ Len(gatRun.res.attn) = Len(gatRun.x)) =>
    LET adj == gatRun.adj
        attn == gatRun.res.attn
        h == GatProject(gat, gatRun.x)
    IN \A i, j \in 1..Len(adj) :
         (adj[i][j] <= 0 /\ ~RowMasked(adj, i)) =>
            /\ \A hd \in 1..gat.heads :
                 attn[i][j][hd].k = "fin" /\ attn[i][j][hd].n = 0
            /\ NoContribution(gat, attn, h, i, j)

\* C17 witness: a training-mode pass in which node 1 has a self-loop only and
\* node 2 has features that are not zero.
C17_Witness ==
  /\ gatRun.done /\ gatRun.res.status = "ok" /\ gat.training
  /\ Len(gatRun.adj) = 2
  /\ gatRun.adj[1][1] > 0 /\ gatRun.adj[1][2] <= 0
  /\ \E c \in 1..Len(gatRun.x[2]) : gatRun.x[2][c].v # 0

\* ------------------------------------------------------- stacked pass claims
\* Layer L, handed what call c records, can return out (under some dropout
\* draw).
OkWith(r, out) == r.status = "ok" /\ r.out = out
LayerGives(L, c, out) ==
  \E pat \in DropPatterns : OkWith(GatForward(L, c.x, c.adj, pat, pat), out)

\* C15: the stacked pass hands its layers, in configured order, the previous
\* layer's output (the first one the input) and always the adjacency matrix it
\* was called with; its result is the last layer's output.
C15_LayersChainSameAdjacency ==
  (stackRun.done /\ stack.status = "ok") =>
    LET calls == stackRun.res.calls
        layers == stack.layers
    IN /\ Len(calls) <= Len(layers)
       /\ stackRun.res.status = "ok" => Len(calls) = Len(layers)
       /\ Len(calls) >= 1 => calls[1].x = stackRun.x
       /\ \A k \in 1..Len(calls) : calls[k].adj = stackRun.adj
       /\ \A k \in 1..(Len(calls) - 1) :
            LayerGives(layers[k], calls[k], calls[k + 1].x)
       /\ stackRun.res.status = "ok" =>
            IF Len(layers) = 0 THEN stackRun.res.out = stackRun.x
            ELSE LayerGives(layers[Len(layers)], calls[Len(layers)],
                            stackRun.res.out)

\* C15 witness: a completed pass through two layers on two nodes.
C15_Witness ==
  /\ stackRun.done /\ stackRun.res.status = "ok"
  /\ Len(stack.layers) = 2 /\ Len(stackRun.res.calls) = 2
  /\ Len(stackRun.x) = 2
  /\ stackRun.res.calls[2].x # stackRun.x

\* ------------------------------------------------------------ timing claims
\* The summed time of the forward passes that were timed.
RECURSIVE TimedSum(_)
TimedSum(log) ==
  IF log = <<>> THEN 0
  ELSE (IF log[1].timed THEN log[1].ms ELSE 0) + TimedSum(Tail(log))

TimedCount(log) == Cardinality({k \in 1..Len(log) : log[k].timed})

\* C18: for a loader of n >= 1 batches the returned value is the summed time
\* of the timed forward passes divided by their number, min(n, num_runs); the
\* warm-up pass is not in the sum.
C18_AveragePerTimedBatch ==
  (timer.pc = "done" /\ Len(timer.data_loader) >= 1) =>
    /\ TimedCount(clock) = IF Len(timer.data_loader) < timer.num_runs
                           THEN Len(timer.data_loader) ELSE timer.num_runs
    /\ timer.total_time = TimedSum(clock)
    /\ timer.avg_time.num * TimedCount(clock) = TimedSum(clock) * timer.avg_time.den

====
